---- MODULE Spec2Model ----
(***************************************************************************)
(* A model of package goinput (src/input.go): filters and validators run   *)
(* over a BasicInput, a BasicInputGroup that filters and validates each of *)
(* its members, and the ValidationError tree the results are reported in.  *)
(*                                                                         *)
(* A caller builds one object (a BasicInput, a BasicInputGroup or a        *)
(* ValidationError) and then calls the package's operations on it.  Every  *)
(* operation is one action; what it returned is kept in ret, the name of   *)
(* the operation in op and its argument in arg.                            *)
(***************************************************************************)
EXTENDS Integers, Sequences, FiniteSets, TLC

VARIABLES input, ig, tree, op, arg, ret

vars == <<input, ig, tree, op, arg, ret>>

(* ---- bounds ----------------------------------------------------------- *)
MaxValue == 2
MaxFilters == 2
MaxValidators == 3
MaxFields == 2
MaxNodes == 4

(* ---- the caller's values, filters and validators ---------------------- *)
Values == 0..MaxValue

FilterNames == {"inc", "dbl"}

\* type Filter func(value interface{}) interface{}
ApplyFilter(filter, value) ==
    IF filter = "inc" THEN (value + 1) % (MaxValue + 1)
    ELSE (2 * value) % (MaxValue + 1)

ValidatorNames == {"even", "positive", "small"}

NilError == [isNil |-> TRUE, msg |-> "", value |-> 0]

NewError(msg, value) == [isNil |-> FALSE, msg |-> msg, value |-> value]

\* type Validator interface { Validate(value interface{}) error }
Validate(validator, value) ==
    IF validator = "even"
    THEN IF value % 2 = 0 THEN NilError ELSE NewError("odd", value)
    ELSE IF validator = "positive"
    THEN IF value > 0 THEN NilError ELSE NewError("zero", value)
    ELSE IF value < 1 THEN NilError ELSE NewError("big", value)

SeqsUpTo(S, n) == UNION {[1..k -> S] : k \in 0..n}

(* ---- maps ------------------------------------------------------------- *)
EmptyMap == [k \in {} |-> 0]

MapPut(m, key, v) == [k \in DOMAIN m \cup {key} |-> IF k = key THEN v ELSE m[k]]

(* ---- ValidationError -------------------------------------------------- *)
NilErrs == [isNil |-> TRUE, v |-> <<>>]

NilChildren == [isNil |-> TRUE, v |-> EmptyMap]

Some(v) == [isNil |-> FALSE, v |-> v]

NewValidationError(errs, children) ==
    [Errors   |-> IF errs.isNil THEN <<>> ELSE errs.v,
     Children |-> IF children.isNil THEN EmptyMap ELSE children.v]

EmptyShallow(errs) ==
    Len(errs.Errors) = 0 /\ Cardinality(DOMAIN errs.Children) = 0

RECURSIVE Empty(_)
Empty(errs) ==
    IF Len(errs.Errors) # 0 THEN FALSE
    ELSE IF Cardinality(DOMAIN errs.Children) # 0
    THEN ~ \E name \in DOMAIN errs.Children : ~ Empty(errs.Children[name])
    ELSE TRUE

(* ---- BasicInput ------------------------------------------------------- *)
BasicInputs ==
    [Value : Values, BreaksValidationChain : BOOLEAN,
     Validators : SeqsUpTo(ValidatorNames, MaxValidators),
     Filters : SeqsUpTo(FilterNames, MaxFilters)]

ZeroInput ==
    [Value |-> 0, BreaksValidationChain |-> FALSE, Validators |-> <<>>, Filters |-> <<>>]

FilterCall(filter, value) == [kind |-> "filter", fn |-> filter, arg |-> value]

ValidateCall(validator, value) == [kind |-> "validate", fn |-> validator, arg |-> value]

FilterStepDropped(filter, value) == value

\* input.Value = filter(input.Value)
FilterStep(filter, value) == ApplyFilter(filter, value)

\* for _, filter := range input.Filters { ... }
\* The local copy of the receiver after the loop, with the calls made.
RECURSIVE FilterLoop(_, _, _)
FilterLoop(filters, local, calls) ==
    IF filters = <<>> THEN [local |-> local, calls |-> calls]
    ELSE FilterLoop(Tail(filters),
                    [local EXCEPT !.Value = FilterStep(Head(filters), local.Value)],
                    Append(calls, FilterCall(Head(filters), local.Value)))

PrependError(errors, valErr) == [errors EXCEPT !.Errors = <<valErr>> \o errors.Errors]

\* errors.Errors = append(errors.Errors, valErr)
AppendError(errors, valErr) == [errors EXCEPT !.Errors = Append(errors.Errors, valErr)]

NeverBreaks(local) == FALSE

\* if input.BreaksValidationChain { break }
BreaksChain(local) == local.BreaksValidationChain

\* for _, validator := range input.Validators { ... }
RECURSIVE ValidatorLoop(_, _, _, _)
ValidatorLoop(validators, local, errors, calls) ==
    IF validators = <<>> THEN [errors |-> errors, calls |-> calls]
    ELSE LET valErr == Validate(Head(validators), local.Value)
             called == Append(calls, ValidateCall(Head(validators), local.Value))
         IN  IF ~ valErr.isNil
             THEN IF BreaksChain(local)
                  THEN [errors |-> AppendError(errors, valErr), calls |-> called]
                  ELSE ValidatorLoop(Tail(validators), local,
                                     AppendError(errors, valErr), called)
             ELSE ValidatorLoop(Tail(validators), local, errors, called)

PointerReceiver(caller, local) == local

\* func (input BasicInput) FilterAndValidate(): a value receiver, the method
\* assigns to its own copy of the struct and the caller's struct is as before.
ValueReceiver(caller, local) == caller

\* func (input BasicInput) FilterAndValidate() (Input, *ValidationError)
\* filtered and errs are the two results, self the caller's struct after the
\* call, calls the filters and validators invoked, in order.
BasicInput_FilterAndValidate(in) ==
    LET errors   == NewValidationError(NilErrs, NilChildren)
        filtered == FilterLoop(in.Filters, in, <<>>)
        checked  == ValidatorLoop(filtered.local.Validators, filtered.local,
                                  errors, filtered.calls)
    IN  [filtered |-> filtered.local,
         errs     |-> checked.errors,
         calls    |-> checked.calls,
         self     |-> ValueReceiver(in, filtered.local)]

(* ---- BasicInputGroup -------------------------------------------------- *)
NameSeq == <<"user", "email", "name", "age">>

FieldNames == {NameSeq[i] : i \in 1..MaxFields}

MissingName == "missing"

\* The members the groups are built from: with and without a filter, with no
\* validator, one validator and two, and the two-validator chain with and
\* without BreaksValidationChain.
GroupMembers ==
    {in \in [Value : {0, 1}, BreaksValidationChain : BOOLEAN,
             Validators : {<<>>, <<"positive">>, <<"even", "small">>},
             Filters : {<<>>, <<"inc">>}] :
        in.BreaksValidationChain => Len(in.Validators) > 1}

Groups == UNION {[S -> GroupMembers] : S \in SUBSET FieldNames}

\* A composite literal BasicInputGroup{name: member, ...} as the caller
\* writes it: every member is a BasicInput or a BasicInputGroup.
InputMember(in) == [type |-> "BasicInput", in |-> in, group |-> EmptyMap]

GroupMember(g) == [type |-> "BasicInputGroup", in |-> ZeroInput, group |-> g]

FlatLiterals == {[n \in DOMAIN g |-> InputMember(g[n])] : g \in Groups}

NestedLiterals ==
    {[n \in {outer} |-> GroupMember(g)] :
        outer \in FieldNames, g \in {h \in Groups : Cardinality(DOMAIN h) = 1}}

\* type BasicInputGroup map[string]BasicInput: the element type admits a
\* BasicInput and nothing else, a literal with any other member is rejected.
NewBasicInputGroup(literal) ==
    IF \A n \in DOMAIN literal : literal[n].type = "BasicInput"
    THEN [ok |-> TRUE, group |-> [n \in DOMAIN literal |-> literal[n].in]]
    ELSE [ok |-> FALSE, group |-> EmptyMap]

\* The orders in which range may visit the keys of a map.
Orders(S) ==
    {o \in [1..Cardinality(S) -> S] : \A i, j \in 1..Cardinality(S) : o[i] = o[j] => i = j}

AlwaysKeepsChild(valErrs) == TRUE

\* if !valErrs.Empty() { errs.Children[fieldName] = valErrs }
KeepsChild(valErrs) == ~ Empty(valErrs)

PutFilteredIfValid(filteredGroup, fieldName, filteredInput, valErrs) ==
    IF Empty(valErrs) THEN MapPut(filteredGroup, fieldName, filteredInput)
    ELSE filteredGroup

\* filteredGroup[fieldName] = filteredInput.(BasicInput), whatever valErrs holds
PutFiltered(filteredGroup, fieldName, filteredInput, valErrs) ==
    MapPut(filteredGroup, fieldName, filteredInput)

\* for fieldName, input := range ig { ... }, the keys visited in order
RECURSIVE GroupLoop(_, _, _)
GroupLoop(group, order, acc) ==
    IF order = <<>> THEN acc
    ELSE LET fieldName == Head(order)
             in        == group[fieldName]
             member    == BasicInput_FilterAndValidate(in)
         IN  GroupLoop(group, Tail(order),
                 [filteredGroup |-> PutFiltered(acc.filteredGroup, fieldName,
                                                member.filtered, member.errs),
                  errs  |-> IF KeepsChild(member.errs)
                            THEN [acc.errs EXCEPT
                                    !.Children = MapPut(@, fieldName, member.errs)]
                            ELSE acc.errs,
                  calls |-> acc.calls \o
                            [i \in 1..Len(member.calls) |->
                                [name |-> fieldName, call |-> member.calls[i]]]])

GroupStart ==
    [filteredGroup |-> EmptyMap,
     errs          |-> NewValidationError(NilErrs, NilChildren),
     calls         |-> <<>>]

\* The prefix of order that ends with the first member that fails validation.
RECURSIVE UpToFirstFailure(_, _)
UpToFirstFailure(group, order) ==
    IF order = <<>> THEN <<>>
    ELSE IF ~ Empty(BasicInput_FilterAndValidate(group[Head(order)]).errs)
    THEN <<Head(order)>>
    ELSE <<Head(order)>> \o UpToFirstFailure(group, Tail(order))

GroupFilterAndValidateBreaking(group, order) ==
    LET done == GroupLoop(group, UpToFirstFailure(group, order), GroupStart)
    IN  [filtered |-> done.filteredGroup, errs |-> done.errs,
         calls |-> done.calls, self |-> group]

\* func (ig BasicInputGroup) FilterAndValidate() (filtered Input, errs *ValidationError)
\* order is the order in which range visits the keys; self is the receiver's
\* map after the call (the method assigns to filteredGroup only).
BasicInputGroup_FilterAndValidate(group, order) ==
    LET done == GroupLoop(group, order, GroupStart)
    IN  [filtered |-> done.filteredGroup, errs |-> done.errs,
         calls |-> done.calls, self |-> group]

ValueOrZero(group, fieldName) ==
    IF fieldName \in DOMAIN group
    THEN [panicked |-> FALSE, value |-> group[fieldName].Value, msg |-> "", self |-> group]
    ELSE [panicked |-> FALSE, value |-> 0, msg |-> "", self |-> group]

\* func (ig BasicInputGroup) Value(fieldName string) interface{}
Value(group, fieldName) ==
    IF fieldName \in DOMAIN group
    THEN [panicked |-> FALSE, value |-> group[fieldName].Value, msg |-> "", self |-> group]
    ELSE [panicked |-> TRUE, value |-> 0, msg |-> "Key does not exist", self |-> group]

(* ---- ValidationError trees built by hand ------------------------------ *)
ManualError == NewError("manual", 0)

ErrsArgs == {NilErrs, Some(<<>>), Some(<<ManualError>>)}

\* The paths (sequences of child names) to the nodes of a tree.
RECURSIVE Paths(_)
Paths(t) ==
    {<<>>} \cup UNION {{<<n>> \o p : p \in Paths(t.Children[n])} : n \in DOMAIN t.Children}

RECURSIVE NodeAt(_, _)
NodeAt(t, path) ==
    IF path = <<>> THEN t ELSE NodeAt(t.Children[Head(path)], Tail(path))

Size(t) == Cardinality(Paths(t))

\* node.Children[name] = child, for the node at path
RECURSIVE PutAt(_, _, _, _)
PutAt(t, path, name, child) ==
    IF path = <<>> THEN [t EXCEPT !.Children = MapPut(t.Children, name, child)]
    ELSE [t EXCEPT !.Children =
            MapPut(t.Children, Head(path),
                   PutAt(t.Children[Head(path)], Tail(path), name, child))]

\* node.Errors = append(node.Errors, err), for the node at path
RECURSIVE AppendAt(_, _, _)
AppendAt(t, path, err) ==
    IF path = <<>> THEN [t EXCEPT !.Errors = Append(t.Errors, err)]
    ELSE [t EXCEPT !.Children =
            MapPut(t.Children, Head(path),
                   AppendAt(t.Children[Head(path)], Tail(path), err))]

(* ---- the state machine ------------------------------------------------ *)
InputOps == {"NewBasicInput", "BasicInput.FilterAndValidate"}

GroupOps == {"NewBasicInputGroup", "BasicInputGroup.FilterAndValidate",
             "BasicInputGroup.Value"}

TreeOps == {"NewValidationError", "SetChild", "AddError", "Empty"}

Init ==
    /\ input = ZeroInput
    /\ ig = EmptyMap
    /\ tree = NewValidationError(NilErrs, NilChildren)
    /\ op = "idle"
    /\ arg = <<>>
    /\ ret = <<>>

\* The caller builds a BasicInput.
MakeBasicInput ==
    /\ op = "idle"
    /\ \E in \in BasicInputs : input' = in
    /\ op' = "NewBasicInput"
    /\ arg' = <<>>
    /\ ret' = <<>>
    /\ UNCHANGED <<ig, tree>>

\* The caller calls input.FilterAndValidate().
CallInputFilterAndValidate ==
    /\ op \in InputOps
    /\ LET r == BasicInput_FilterAndValidate(input)
       IN  /\ input' = r.self
           /\ ret' = r
    /\ op' = "BasicInput.FilterAndValidate"
    /\ arg' = <<>>
    /\ UNCHANGED <<ig, tree>>

\* The caller writes a BasicInputGroup literal.
MakeBasicInputGroup ==
    /\ op = "idle"
    /\ \E literal \in FlatLiterals \cup NestedLiterals :
          LET r == NewBasicInputGroup(literal)
          IN  /\ ig' = r.group
              /\ ret' = r
              /\ arg' = literal
    /\ op' = "NewBasicInputGroup"
    /\ UNCHANGED <<input, tree>>

GroupBuilt == op \in GroupOps /\ (op = "NewBasicInputGroup" => ret.ok)

\* The caller calls ig.FilterAndValidate(); range visits the keys in some order.
CallGroupFilterAndValidate ==
    /\ GroupBuilt
    /\ \E order \in Orders(DOMAIN ig) :
          LET r == BasicInputGroup_FilterAndValidate(ig, order)
          IN  /\ ig' = r.self
              /\ ret' = r
    /\ op' = "BasicInputGroup.FilterAndValidate"
    /\ arg' = <<>>
    /\ UNCHANGED <<input, tree>>

\* The caller calls ig.Value(fieldName).
CallValue ==
    /\ GroupBuilt
    /\ \E fieldName \in FieldNames \cup {MissingName} :
          LET r == Value(ig, fieldName)
          IN  /\ ig' = r.self
              /\ ret' = r
              /\ arg' = fieldName
    /\ op' = "BasicInputGroup.Value"
    /\ UNCHANGED <<input, tree>>

\* The caller calls NewValidationError(errs, nil).
MakeValidationError ==
    /\ op = "idle"
    /\ \E errs \in ErrsArgs : tree' = NewValidationError(errs, NilChildren)
    /\ op' = "NewValidationError"
    /\ arg' = <<>>
    /\ ret' = <<>>
    /\ UNCHANGED <<input, ig>>

\* The caller stores a new ValidationError under a name in a node of the tree.
SetChild ==
    /\ op \in TreeOps
    /\ Size(tree) < MaxNodes
    /\ \E path \in Paths(tree), name \in FieldNames, errs \in ErrsArgs :
          /\ name \notin DOMAIN NodeAt(tree, path).Children
          /\ tree' = PutAt(tree, path, name, NewValidationError(errs, NilChildren))
    /\ op' = "SetChild"
    /\ arg' = <<>>
    /\ ret' = <<>>
    /\ UNCHANGED <<input, ig>>

\* The caller appends an error to a node of the tree that has none.
AddError ==
    /\ op \in TreeOps
    /\ \E path \in Paths(tree) :
          /\ NodeAt(tree, path).Errors = <<>>
          /\ tree' = AppendAt(tree, path, ManualError)
    /\ op' = "AddError"
    /\ arg' = <<>>
    /\ ret' = <<>>
    /\ UNCHANGED <<input, ig>>

\* The caller calls tree.Empty().
CallEmpty ==
    /\ op \in TreeOps
    /\ ret' = Empty(tree)
    /\ op' = "Empty"
    /\ arg' = <<>>
    /\ UNCHANGED <<input, ig, tree>>

Next ==
    \/ MakeBasicInput
    \/ CallInputFilterAndValidate
    \/ MakeBasicInputGroup
    \/ CallGroupFilterAndValidate
    \/ CallValue
    \/ MakeValidationError
    \/ SetChild
    \/ AddError
    \/ CallEmpty

Spec == Init /\ [][Next]_vars

(* ---- properties ------------------------------------------------------- *)
Fails(validator, value) == ~ Validate(validator, value).isNil

\* t_n(...t_1(v)) for the filters <<t_1, ..., t_n>>
RECURSIVE Composed(_, _)
Composed(filters, v) ==
    IF filters = <<>> THEN v
    ELSE ApplyFilter(filters[Len(filters)],
                     Composed(SubSeq(filters, 1, Len(filters) - 1), v))

IsValidateCall(c) == c.kind = "validate"

\* The validators invoked, in the order of their invocation.
Checked(calls) ==
    LET checks == SelectSeq(calls, IsValidateCall)
    IN  [i \in 1..Len(checks) |-> checks[i].fn]

FirstFailing(validators, value) ==
    CHOOSE k \in DOMAIN validators :
        /\ Fails(validators[k], value)
        /\ \A j \in 1..(k - 1) : ~ Fails(validators[j], value)

IsProblem(err) == ~ err.isNil

\* What the failing validators report on value, in the order of the validators.
FailingProblems(validators, value) ==
    SelectSeq([i \in DOMAIN validators |-> Validate(validators[i], value)], IsProblem)

AfterInputFAV == op = "BasicInput.FilterAndValidate"

AfterGroupFAV == op = "BasicInputGroup.FilterAndValidate"

\* C1: a BasicInput with BreaksValidationChain set and at least one validator
\* that fails on the filtered value returns exactly one error, the error of
\* the first failing validator, and invokes no validator after that one.
C1_BreaksOnFirstFailure ==
    (/\ AfterInputFAV
     /\ input.BreaksValidationChain
     /\ \E i \in DOMAIN input.Validators :
            Fails(input.Validators[i], ret.filtered.Value))
    => LET tv == ret.filtered.Value
           k  == FirstFailing(input.Validators, tv)
       IN  /\ Len(ret.errs.Errors) = 1
           /\ ret.errs.Errors[1] = Validate(input.Validators[k], tv)
           /\ Checked(ret.calls) = SubSeq(input.Validators, 1, k)

C1_Witness ==
    /\ AfterInputFAV
    /\ input.BreaksValidationChain
    /\ Len(input.Validators) = 3
    /\ ~ Fails(input.Validators[1], ret.filtered.Value)
    /\ Fails(input.Validators[2], ret.filtered.Value)
    /\ Fails(input.Validators[3], ret.filtered.Value)
    /\ Len(ret.errs.Errors) = 1

\* C2: a BasicInput with BreaksValidationChain unset invokes every validator,
\* and its errors are what the failing validators report, in validator order.
C2_CollectsEveryFailure ==
    (AfterInputFAV /\ ~ input.BreaksValidationChain)
    => /\ Checked(ret.calls) = input.Validators
       /\ ret.errs.Errors = FailingProblems(input.Validators, ret.filtered.Value)

C2_Witness ==
    /\ AfterInputFAV
    /\ ~ input.BreaksValidationChain
    /\ Len(input.Validators) = 3
    /\ Fails(input.Validators[1], ret.filtered.Value)
    /\ ~ Fails(input.Validators[2], ret.filtered.Value)
    /\ Fails(input.Validators[3], ret.filtered.Value)
    /\ Len(ret.errs.Errors) = 2
    /\ ret.errs.Errors[1] # ret.errs.Errors[2]

MemberErrs(in) == BasicInput_FilterAndValidate(in).errs

\* C3: the children of the ValidationError a group returns are keyed by exactly
\* the names of the members whose own errors are not empty, each name mapped
\* to its member's errors, and the group's own Errors are empty.
C3_ChildrenAreTheFailingMembers ==
    AfterGroupFAV
    => /\ DOMAIN ret.errs.Children =
              {n \in DOMAIN ig : Len(MemberErrs(ig[n]).Errors) > 0}
       /\ \A n \in DOMAIN ret.errs.Children :
              /\ ret.errs.Children[n] = MemberErrs(ig[n])
              /\ ~ Empty(ret.errs.Children[n])
       /\ ret.errs.Errors = <<>>

C3_Witness ==
    /\ AfterGroupFAV
    /\ Cardinality(DOMAIN ig) = 2
    /\ Cardinality(DOMAIN ret.errs.Children) = 1

\* C4: the group a group's FilterAndValidate returns has the field names of
\* the receiver, each mapped to the filtered member of the same name.
C4_SameFieldNames ==
    AfterGroupFAV
    => /\ DOMAIN ret.filtered = DOMAIN ig
       /\ \A n \in DOMAIN ig :
              ret.filtered[n] = BasicInput_FilterAndValidate(ig[n]).filtered

C4_Witness ==
    /\ AfterGroupFAV
    /\ Cardinality(DOMAIN ret.filtered) = 2
    /\ \E n \in DOMAIN ig :
          /\ n \in DOMAIN ret.errs.Children
          /\ ret.filtered[n].Value # ig[n].Value

\* No node of the tree holds an error.
NoProblemAnywhere(t) == \A path \in Paths(t) : Len(NodeAt(t, path).Errors) = 0

C6_GroupMayNestGroup ==
    (/\ op = "NewBasicInputGroup"
     /\ \E n \in DOMAIN arg : arg[n].type = "BasicInputGroup")
    => ret.ok

\* C7: the filters run in order before any validator, each on the result of
\* the one before; every validator is invoked on the value the last filter
\* returned, which is the value of the returned BasicInput; with no failing
\* validator the returned ValidationError is empty.
C7_FiltersThenValidators ==
    AfterInputFAV
    => LET tv == Composed(input.Filters, input.Value)
           n  == Len(input.Filters)
       IN  /\ ret.filtered = [input EXCEPT !.Value = tv]
           /\ Len(ret.calls) >= n
           /\ \A i \in 1..n :
                 ret.calls[i] =
                     FilterCall(input.Filters[i],
                                Composed(SubSeq(input.Filters, 1, i - 1), input.Value))
           /\ \A i \in (n + 1)..Len(ret.calls) :
                 ret.calls[i].kind = "validate" /\ ret.calls[i].arg = tv
           /\ (\A i \in DOMAIN input.Validators : ~ Fails(input.Validators[i], tv))
                 => /\ ret.errs = NewValidationError(NilErrs, NilChildren)
                    /\ Empty(ret.errs)

C7_Witness ==
    /\ AfterInputFAV
    /\ Len(input.Filters) = 2
    /\ Composed(input.Filters, input.Value)
          # Composed(<<input.Filters[2], input.Filters[1]>>, input.Value)
    /\ ret.filtered.Value # input.Value
    /\ Len(input.Validators) > 1
    /\ Len(ret.errs.Errors) > 0

\* C8: Value(fieldName) returns the value of the member stored under
\* fieldName, panics when the group has no such member, and leaves the
\* group as it was.
C8_ValueOrPanic ==
    [][op' = "BasicInputGroup.Value"
        => /\ ig' = ig
           /\ IF arg' \in DOMAIN ig
              THEN ~ ret'.panicked /\ ret'.value = ig[arg'].Value
              ELSE ret'.panicked /\ ret'.msg = "Key does not exist"]_vars

C8_Witness ==
    /\ op = "BasicInputGroup.Value"
    /\ arg \in FieldNames
    /\ arg \notin DOMAIN ig
    /\ ig # EmptyMap
    /\ ret.panicked

\* The calls made for the member called name, in order.
MemberCalls(calls, name) ==
    LET IsOfMember(c) == c.name = name
        own == SelectSeq(calls, IsOfMember)
    IN  [i \in 1..Len(own) |-> own[i].call]

\* C9: whatever the order in which the members are visited, the group and
\* the ValidationError returned are the same, and every member is filtered
\* and validated as it is on its own: a failing member stops no sibling, and
\* BreaksValidationChain stops the validators of its own member only.
C9_MembersAreIndependent ==
    AfterGroupFAV
    => /\ \A order \in Orders(DOMAIN ig) :
              LET r == BasicInputGroup_FilterAndValidate(ig, order)
              IN  r.filtered = ret.filtered /\ r.errs = ret.errs
       /\ \A n \in DOMAIN ig :
              MemberCalls(ret.calls, n) = BasicInput_FilterAndValidate(ig[n]).calls

C9_Witness ==
    /\ AfterGroupFAV
    /\ Len(ret.calls) > 0
    /\ \E m, n \in DOMAIN ig :
          /\ m # n
          /\ ret.calls[1].name = m
          /\ ig[m].BreaksValidationChain
          /\ Len(FailingProblems(ig[m].Validators, ret.filtered[m].Value)) = 2
          /\ Len(ret.errs.Children[m].Errors) = 1
          /\ ~ ig[n].BreaksValidationChain
          /\ n \in DOMAIN ret.errs.Children
          /\ Len(ret.errs.Children[n].Errors) = 2

\* C10: FilterAndValidate leaves its receiver as it was, a BasicInput with
\* its unfiltered value and a group with its unfiltered members; the filtered
\* values are in what it returns.
C10_ReplacesNotMutates ==
    [][/\ op' = "BasicInput.FilterAndValidate"
          => /\ input' = input
             /\ ret'.filtered.Value = Composed(input.Filters, input.Value)
       /\ op' = "BasicInputGroup.FilterAndValidate"
          => /\ ig' = ig
             /\ \A n \in DOMAIN ig :
                   ret'.filtered[n].Value = Composed(ig[n].Filters, ig[n].Value)]_vars

C10_Witness ==
    /\ AfterInputFAV
    /\ input.Filters # <<>>
    /\ ret.filtered.Value # input.Value
    /\ ret.self = input

====
